---- MODULE Spec2Model ----
(***************************************************************************)
(* The HRRR Zarr example notebooks as a state machine: a Jupyter kernel    *)
(* runs the code cells of one notebook in document order; the cell that    *)
(* calls load_combined_dataset runs that function statement by statement.  *)
(*                                                                         *)
(*   part_000        the open_mfdataset notebook (load_dataset)            *)
(*   not_mf          hrrr_zarr_one_day_analysis_not_mf.ipynb, lines 1-258   *)
(*   projection      the second document of that file, lines 260-473       *)
(*   thread_locking  thread_locking.ipynb                                  *)
(***************************************************************************)
EXTENDS Integers, Sequences, FiniteSets, TLC

\* ------------------------------------------------------------------------
\* Bounds of the model
\* ------------------------------------------------------------------------

\* The largest num_hours a call is given.
MaxHours == 3

\* ------------------------------------------------------------------------
\* Inputs
\* ------------------------------------------------------------------------

Date(y, m, d, h) == [year |-> y, month |-> m, day |-> d, hour |-> h]

\* start_date values: the notebooks' own datetime(2021, 4, 1), and instants
\* whose next hours cross a day, a month, a leap day and a year.
StartDates ==
    { Date(2021, 4, 1, 0), Date(2021, 4, 30, 22), Date(2020, 2, 28, 23),
      Date(2021, 2, 28, 23), Date(2021, 12, 31, 22) }

\* level values: the notebooks' "1000mb" and "surface", and a string that
\* holds a strftime directive.
Levels == { "1000mb", "surface", "%H" }

\* param_short_name values.
Params == { "TMP", "PRES" }

\* ------------------------------------------------------------------------
\* datetime: start_date + datetime.timedelta(hours=i)
\* ------------------------------------------------------------------------

IsLeap(y) == (y % 4 = 0) /\ ((y % 100 # 0) \/ (y % 400 = 0))

DaysInMonth(y, m) ==
    IF m = 2 THEN (IF IsLeap(y) THEN 29 ELSE 28)
    ELSE IF m \in {4, 6, 9, 11} THEN 30 ELSE 31

NextDay(t) ==
    IF t.day < DaysInMonth(t.year, t.month)
    THEN [t EXCEPT !.day = t.day + 1]
    ELSE IF t.month < 12
         THEN [t EXCEPT !.day = 1, !.month = t.month + 1]
         ELSE [t EXCEPT !.day = 1, !.month = 1, !.year = t.year + 1]

\* An hour that wraps without carrying into the date.
NextHourNoCarry(t) == [t EXCEPT !.hour = (t.hour + 1) % 24]

NextHour(t) ==
    IF t.hour < 23 THEN [t EXCEPT !.hour = t.hour + 1]
    ELSE [NextDay(t) EXCEPT !.hour = 0]

\* A time that ignores the loop index.
AddHoursNone(t, n) == t

RECURSIVE AddHours(_, _)
AddHours(t, n) == IF n = 0 THEN t ELSE AddHours(NextHour(t), n - 1)

\* ------------------------------------------------------------------------
\* strftime and the URL templates.  A string is a sequence of tokens: a
\* digit, a strftime directive, or a run of literal text.
\* ------------------------------------------------------------------------

DigitChars == << "0", "1", "2", "3", "4", "5", "6", "7", "8", "9" >>

Digit(n) == DigitChars[n + 1]

Pad2(n) == << Digit((n \div 10) % 10), Digit(n % 10) >>

Pad4(n) == << Digit((n \div 1000) % 10), Digit((n \div 100) % 10),
              Digit((n \div 10) % 10), Digit(n % 10) >>

\* One token of a format string, as strftime renders it.
Expand(t, tok) ==
    CASE tok = "%Y" -> Pad4(t.year)
      [] tok = "%m" -> Pad2(t.month)
      [] tok = "%d" -> Pad2(t.day)
      [] tok = "%H" -> Pad2(t.hour)
      [] OTHER -> << tok >>

RECURSIVE strftime(_, _)
strftime(t, fmt) ==
    IF fmt = << >> THEN << >>
    ELSE Expand(t, Head(fmt)) \o strftime(t, Tail(fmt))

\* f"s3://hrrrzarr/sfc/%Y%m%d/%Y%m%d_%Hz_anl.zarr/{level}/{param_short_name}":
\* the f-string puts level and param_short_name into the format BEFORE
\* strftime reads it.
group_url_format(level, param_short_name) ==
    << "s3://hrrrzarr/sfc/", "%Y", "%m", "%d", "/", "%Y", "%m", "%d", "_",
       "%H", "z_anl.zarr/", level, "/", param_short_name >>

\* time.strftime(group_url_format)
GroupUrl(t, level, param_short_name) ==
    strftime(t, group_url_format(level, param_short_name))

\* A subgroup URL without the separator before the level.
SubgroupUrlNoSlash(t, level, param_short_name) ==
    GroupUrl(t, level, param_short_name) \o << level >>

\* group_url + f"/{level}": appended after strftime has run.
SubgroupUrl(t, level, param_short_name) ==
    GroupUrl(t, level, param_short_name) \o << "/", level >>

\* ------------------------------------------------------------------------
\* The notebooks: their code cells in document order.  binds: the global
\* names a cell binds; reads: the global names it reads, those read by the
\* bodies of the functions it calls included (load_combined_dataset is run
\* statement by statement and its reads are BodyReads below); step: what
\* the cell does.
\* ------------------------------------------------------------------------

Notebooks == { "part_000", "not_mf", "projection", "thread_locking" }

Cell(binds, reads, step) == [binds |-> binds, reads |-> reads, step |-> step]

Cells_part_000 ==
    << Cell({"s3fs", "xr", "metpy", "datetime", "plt", "ccrs"}, {}, "import"),
       Cell({"load_dataset"}, {}, "def"),
       Cell({"load_combined_dataset"}, {}, "def"),
       Cell({"ds"}, {"load_combined_dataset", "datetime"}, "call"),
       Cell({"std_dev"}, {"ds"}, "reduce"),
       Cell({"ax"}, {"plt", "ccrs", "std_dev"}, "plot"),
       Cell({"pyproj"}, {}, "config"),
       Cell({}, {}, "empty") >>

Cells_not_mf ==
    << Cell({"s3fs", "xr", "metpy", "datetime", "plt", "ccrs"}, {}, "import"),
       Cell({"load"}, {}, "def"),
       Cell({"projection", "load_combined_dataset"}, {"ccrs"}, "def"),
       Cell({"ds"}, {"load_combined_dataset", "datetime"}, "call"),
       Cell({"std_dev"}, {"ds"}, "reduce"),
       Cell({"ax"}, {"plt", "projection", "std_dev"}, "plot"),
       Cell({"pyproj"}, {}, "config") >>

Cells_projection ==
    << Cell({"proj_params"}, {}, "def"),
       Cell({"ccrs", "projection"}, {"proj_params"}, "def"),
       Cell({"s3fs", "xr", "datetime", "units", "load_example_data",
             "surface_temp", "airport_lat", "airport_lon", "x", "y",
             "temperature"},
            {"projection", "ccrs"}, "open_read"),
       Cell({"metpy", "assign_coordinates", "surface_temp"},
            {"surface_temp", "projection"}, "repair"),
       Cell({"plt", "ax"}, {"ccrs", "surface_temp"}, "plot"),
       Cell({}, {}, "empty") >>

Cells_thread_locking ==
    << Cell({"s3fs", "xr", "s3", "lookup", "path_forecast", "ds_from_s3", "_"},
            {}, "open_read"),
       Cell({"ds_size_mb"}, {"ds_from_s3"}, "size"),
       Cell({"_"}, {"ds_from_s3"}, "reduce"),
       Cell({}, {"ds_size_mb", "ds_from_s3"}, "size"),
       Cell({}, {}, "comment"),
       Cell({"ds_from_local"}, {"xr"}, "open_local"),
       Cell({}, {"ds_size_mb", "ds_from_local"}, "size"),
       Cell({"_"}, {"ds_from_local"}, "reduce"),
       Cell({"dask", "zarr", "platform"}, {"xr", "s3fs"}, "versions"),
       Cell({}, {"xr"}, "versions"),
       Cell({}, {}, "empty") >>

Cells(n) ==
    CASE n = "part_000" -> Cells_part_000
      [] n = "not_mf" -> Cells_not_mf
      [] n = "projection" -> Cells_projection
      [] n = "thread_locking" -> Cells_thread_locking

\* The kernels a notebook is run in: a fresh one, and the one the recorded
\* outputs of not_mf come from, whose cells ran out of document order
\* (execution counts 5, 2, 9, 7, 8, 22) with fs bound by code that is not in
\* the notebook.
Kernels == { {}, {"fs"} }

\* What the fifth cell of thread_locking would write were its copy command
\* not commented out.
DiskWritesCopy(n, k) ==
    IF n = "thread_locking" /\ k = 5 THEN {"downloaded.zarr"} ELSE {}

\* What a cell writes: to the local disk and to the object store.  Every
\* remote call of the notebooks opens for reading, and the one command that
\* copies to disk (aws s3 cp ... downloaded.zarr) is a comment.
DiskWrites(n, k) == {}

RemoteWrites(n, k) == {}

\* ------------------------------------------------------------------------
\* Datasets
\* ------------------------------------------------------------------------

None == [kind |-> "None"]

\* The attributes a dataset of the archive may carry.
AttrNames == {"history"}

AttrValues == {"a", "b"}

AttrSets == UNION { [S -> AttrValues] : S \in SUBSET AttrNames }

\* The hours of the archive a call can reach.
Hours == 0..(MaxHours - 1)

\* The archives whose datasets all carry the same attributes, and all
\* archives.
UniformAttrs == { [h \in Hours |-> [k \in AttrNames |-> "a"]] }

VariedAttrs == [Hours -> AttrSets]

\* thread_locking: path_forecast, the path it opens remotely, the source of
\* the copy in the comment of its fifth code cell, and the local path it
\* opens.  Paths are sequences of components ("s3://a/b" is s3:, "", a, b).
path_forecast ==
    << "hrrrzarr", "sfc", "20211124", "20211124_00z_fcst.zarr", "surface",
       "PRES" >>

OpenedPath == path_forecast \o << "surface" >>

\* A copy of the group above the array group.
CopySourceGroup ==
    << "s3:", "", "hrrrzarr", "sfc", "20211124", "20211124_00z_fcst.zarr",
       "surface", "PRES" >>

CopySource ==
    << "s3:", "", "hrrrzarr", "sfc", "20211124", "20211124_00z_fcst.zarr",
       "surface", "PRES", "surface" >>

CopyTarget == "downloaded.zarr"

LocalPath == "downloaded.zarr"

\* The bucket and key an s3:// URL names.
ObjectPath(url) ==
    IF Len(url) >= 2 /\ url[1] = "s3:" /\ url[2] = ""
    THEN SubSeq(url, 3, Len(url)) ELSE url

\* What a zarr group of the archive may hold: ntime time steps of ncell grid
\* cells of itemsize bytes (the recorded run: 48 x (1059 x 1799) x 4 bytes),
\* or no array at all.
ArchivePaths == { path_forecast, OpenedPath }

Contents ==
    { [ntime |-> 48, ncell |-> 1059 * 1799, itemsize |-> 4],
      [ntime |-> 2, ncell |-> 3, itemsize |-> 2],
      [ntime |-> 0, ncell |-> 0, itemsize |-> 4] }

\* xr.open_zarr: a new dataset object over the arrays of the group.
OpenZarr(c, id) ==
    [kind |-> "Dataset", obj |-> id, shape |-> << c.ntime, c.ncell >>,
     itemsize |-> c.itemsize, renamed |-> FALSE, crs |-> FALSE,
     latlon |-> FALSE]

\* .PRES.values: the values as a new array object.
ValuesOf(d, id) ==
    [kind |-> "ndarray", obj |-> id, shape |-> d.shape,
     itemsize |-> d.itemsize]

\* .PRES.mean(dim="time").values: a new array object without the time
\* dimension.
MeanOverTime(d, id) ==
    [kind |-> "ndarray", obj |-> id, shape |-> Tail(d.shape),
     itemsize |-> d.itemsize]

RECURSIVE Product(_)
Product(sh) == IF sh = << >> THEN 1 ELSE Head(sh) * Product(Tail(sh))

\* ds.nbytes: the size of the arrays, from shape and item size.
nbytes(d) == Product(d.shape) * d.itemsize

\* def ds_size_mb(ds): return ds.nbytes/1024**2 -- the quotient as whole
\* part and remainder (the float division by a power of two is exact).
ds_size_mb(d) ==
    << nbytes(d) \div (1024 * 1024), nbytes(d) % (1024 * 1024) >>

GlobalNames == { "ds_from_s3", "ds_from_local", "_", "surface_temp" }

\* The global a cell passes to ds_size_mb or reduces.
ArgOf(c) == CHOOSE n \in c.reads \cap GlobalNames : TRUE

\* A reduction that overwrites the dataset it reduces.
AfterReduceInPlace(g, src, id) ==
    [g EXCEPT ![src] = MeanOverTime(g[src], id),
              !["_"] = MeanOverTime(g[src], id)]

\* _ = <src>.PRES.mean(dim="time").values
AfterReduce(g, src, id) == [g EXCEPT !["_"] = MeanOverTime(g[src], id)]

\* What the archive returns for an open.  time: the values of the time
\* variable, the instant the opened path is for; timeDim: whether "time" is
\* a dimension; timeCoord: whether "time" is a coordinate; nvars: the
\* number of data variables next to "time"; grid: the instant of the group
\* whose x/y coordinate values the dataset carries; attrs: the dataset's
\* attributes.
Opened(t, nv, withGroup, at) ==
    [kind |-> "Dataset", time |-> << t >>, timeDim |-> FALSE,
     timeCoord |-> FALSE, nvars |-> nv, renamed |-> FALSE, crs |-> FALSE,
     latlon |-> FALSE, grid |-> IF withGroup THEN t ELSE None,
     attrs |-> at]

\* bool(ds): a Dataset is true when it has data variables, None is false.
Truthy(d) == d # None /\ d.nvars > 0

RECURSIVE ConcatTimes(_)
ConcatTimes(dss) ==
    IF dss = << >> THEN << >>
    ELSE Head(dss).time \o ConcatTimes(Tail(dss))

\* A concatenation that puts the newest dataset first.
ConcatNewestFirst(dss) ==
    [Head(dss) EXCEPT
        !.time = ConcatTimes([k \in 1..Len(dss) |-> dss[Len(dss) + 1 - k]]),
        !.timeDim = TRUE]

\* xr.concat(dss, dim="time", combine_attrs="override"): the first dataset
\* extended along time; its attributes are the first dataset's.
Concat(dss) ==
    [Head(dss) EXCEPT !.time = ConcatTimes(dss), !.timeDim = TRUE]

Restrict(f, S) == [k \in S |-> f[k]]

NoAttrs == [k \in {} |-> "a"]

\* One round of the merge of combine_attrs="drop_conflicts": the attributes
\* of the next object are added unless already there or dropped before, then
\* every attribute the object carries with another value is dropped.
MergeStep(acc, at) ==
    LET added == DOMAIN acc.result
                    \cup { k \in DOMAIN at : k \notin acc.dropped }
        r1 == [k \in added |->
                  IF k \in DOMAIN acc.result THEN acc.result[k] ELSE at[k]]
        keep == { k \in added : k \notin DOMAIN at \/ at[k] = r1[k] }
    IN [result |-> Restrict(r1, keep),
        dropped |-> acc.dropped \cup (DOMAIN at \ keep)]

RECURSIVE MergeFrom(_, _)
MergeFrom(acc, ats) ==
    IF ats = << >> THEN acc
    ELSE MergeFrom(MergeStep(acc, Head(ats)), Tail(ats))

DropConflicts(ats) ==
    MergeFrom([result |-> NoAttrs, dropped |-> {}], ats).result

\* xr.concat(dss, dim="time", combine_attrs="drop_conflicts")
ConcatDropConflicts(dss) ==
    [Concat(dss) EXCEPT
        !.attrs = DropConflicts([k \in 1..Len(dss) |-> dss[k].attrs])]

VARIABLES
    nb,          \* the notebook being run
    kernel0,     \* the names bound when the run starts
    defined,     \* the names bound now
    cell,        \* index of the next code cell
    status,      \* "running", "finished" or "error"
    err,         \* the error the run stopped on, or "none"
    pc,          \* the statement of load_combined_dataset to run, or "idle"
    args,        \* the arguments of the call
    i,           \* the loop index
    time,        \* the loop's time
    urls,        \* the url(s) the next open is given
    target,      \* what the running load is for: "grid" or "hour"
    ds,          \* the local ds of load / load_dataset
    grid,        \* not_mf: the grid dataset
    datasets,    \* not_mf: the list of per-hour datasets
    combined_ds, \* part_000: the datasets combined so far
    result,      \* the value bound to the global ds, or Unbound
    opens,       \* log: every open call, [urls, hour, ok]
    trace,       \* log: every step, [step, hour, ev]
    disk,        \* the local files
    remote,      \* the objects written to the store
    archive,     \* the content of the archive, fixed for the run
    globals,     \* the values of thread_locking's ds_from_s3, ds_from_local
                 \* and _, and of projection's surface_temp
    out          \* thread_locking: the outputs of the ds_size_mb cells

vars == << nb, kernel0, defined, cell, status, err, pc, args, i, time, urls,
           target, ds, grid, datasets, combined_ds, result, opens, trace,
           disk, remote, archive, globals, out >>

kernelVars == << nb, kernel0, archive >>
callVars == << args, i, time, urls, target, ds, grid, datasets, combined_ds >>
storeVars == << disk, remote >>
cellVars == << globals, out >>

Unbound == [kind |-> "Unbound"]

NoArgs == [start_date |-> None, num_hours |-> 0, level |-> "", param |-> ""]

InitWith(attrChoices) ==
    /\ nb \in Notebooks
    /\ archive \in [attrs : IF nb = "part_000" THEN attrChoices
                            ELSE UniformAttrs,
                    arrays : IF nb = "thread_locking"
                             THEN [ArchivePaths -> Contents]
                             ELSE { [q \in ArchivePaths |->
                                       [ntime |-> 48, ncell |-> 1059 * 1799,
                                        itemsize |-> 4]] }]
    /\ kernel0 \in Kernels
    /\ defined = kernel0
    /\ cell = 1
    /\ status = "running"
    /\ err = "none"
    /\ pc = "idle"
    /\ args = NoArgs
    /\ i = 0
    /\ time = None
    /\ urls = << >>
    /\ target = "none"
    /\ ds = None
    /\ grid = None
    /\ datasets = << >>
    /\ combined_ds = None
    /\ result = Unbound
    /\ opens = << >>
    /\ trace = << >>
    /\ disk \in { {}, {"downloaded.zarr"} }
    /\ remote = {}
    /\ globals = [n \in GlobalNames |-> Unbound]
    /\ out = << >>

Init == InitWith(UniformAttrs)

\* The runs over archives whose attributes differ from hour to hour.
InitAttrs == InitWith(VariedAttrs)

\* ------------------------------------------------------------------------
\* Helpers of the actions
\* ------------------------------------------------------------------------

ThisCell == Cells(nb)[cell]

\* The local copy, when it is there, is what the command in the comment of
\* thread_locking's fifth code cell makes: the archive's group at the
\* source of the copy.
Downloaded == archive.arrays[ObjectPath(CopySource)]

AtCell == status = "running" /\ pc = "idle" /\ cell <= Len(Cells(nb))

InCall == status = "running" /\ pc # "idle"

\* A call that is started and not waited for.
StepDetached(tr, step, hour, outcome) ==
    tr \o << [step |-> step, hour |-> hour, ev |-> "begin"] >>

\* A statement is a synchronous call: it has begun and ended (or raised)
\* before the next one begins.
Step(tr, step, hour, outcome) ==
    tr \o << [step |-> step, hour |-> hour, ev |-> "begin"],
             [step |-> step, hour |-> hour, ev |-> outcome] >>

\* The cell is done: its names are bound and the next cell is up; after the
\* last cell the run is finished.
Advance(binds) ==
    /\ defined' = defined \cup binds
    /\ cell' = cell + 1
    /\ status' = IF cell = Len(Cells(nb)) THEN "finished" ELSE "running"
    /\ err' = err

\* An error at the top level of a cell: nothing handles it, the run stops.
CellFails(e) ==
    /\ status' = "error"
    /\ err' = e
    /\ UNCHANGED << defined, cell >>

\* What an except clause would do instead: go on with the next hour, or try
\* the hour again.
RaiseSwallowed(e) ==
    /\ status' = status
    /\ err' = err
    /\ pc' = "for"
    /\ i' = i + 1

RaiseRetried(e) ==
    /\ status' = status
    /\ err' = err
    /\ pc' = "url"
    /\ i' = i

\* An error inside load_combined_dataset: there is no try/except in load,
\* load_dataset or load_combined_dataset, so it leaves the call and stops
\* the run.
Raise(e) ==
    /\ status' = "error"
    /\ err' = e
    /\ pc' = "raised"
    /\ i' = i

\* (range(num_hours + 1) would be InRangeInclusive.)
InRangeInclusive(k, n) == k <= n

\* for i in range(num_hours): the loop body runs for i = 0 .. num_hours - 1.
InRange(k, n) == k < n

\* The global names a statement of load_combined_dataset (and of load /
\* load_dataset, which it calls) reads.
BodyReads(n, p) ==
    CASE n = "not_mf" /\ p = "L_open" -> {"load", "xr", "s3fs", "fs"}
      [] n = "not_mf" /\ p = "url" -> {"datetime"}
      [] n = "not_mf" /\ p = "concat" -> {"xr"}
      [] n = "not_mf" /\ p = "crs" -> {"projection"}
      [] n = "part_000" /\ p = "url" -> {"datetime"}
      [] n = "part_000" /\ p = "D_open" -> {"load_dataset", "s3fs", "xr"}
      [] n = "part_000" /\ p = "combine" /\ Truthy(combined_ds) -> {"xr"}
      [] OTHER -> {}

Bound == BodyReads(nb, pc) \subseteq defined

\* What an open writes to the object store: xr.open_dataset and
\* xr.open_mfdataset open an S3Map of an anonymous file system for reading.
OpenWrites(us) == {}

LogOpen(us, hour, ok, nv) ==
    Append(opens, [urls |-> us, hour |-> hour, ok |-> ok, nvars |-> nv])

\* ------------------------------------------------------------------------
\* Cells
\* ------------------------------------------------------------------------

\* projection: reference_time = datetime(2021, 7, 5, 19)
reference_time == Date(2021, 7, 5, 19)

\* A repair that asks for latitude and longitude before the reference
\* system is attached.
RepairStepsLatLonFirst == << "rename", "assign_latlon", "assign_crs" >>

\* assign_coordinates: ds.rename(...), ds.metpy.assign_crs(...),
\* ds.metpy.assign_latitude_longitude(), in this order.
RepairSteps == << "rename", "assign_crs", "assign_latlon" >>

ApplyRepair(d, step) ==
    CASE step = "rename" -> [d EXCEPT !.renamed = TRUE]
      [] step = "assign_crs" -> [d EXCEPT !.crs = TRUE]
      [] step = "assign_latlon" -> [d EXCEPT !.latlon = TRUE]

RECURSIVE ApplyRepairs(_, _)
ApplyRepairs(d, steps) ==
    IF steps = << >> THEN d
    ELSE ApplyRepairs(ApplyRepair(d, Head(steps)), Tail(steps))

assign_coordinates(d) == ApplyRepairs(d, RepairSteps)

\* The trace after the given steps have run one after the other.
RECURSIVE StepsDone(_, _)
StepsDone(tr, steps) ==
    IF steps = << >> THEN tr
    ELSE StepsDone(Step(tr, Head(steps), -1, "end"), Tail(steps))

\* Imports, definitions, the pyproj setting, the size and version cells, the
\* commented-out copy and the empty cells.
CellPlain ==
    /\ AtCell
    /\ ThisCell.reads \subseteq defined
    /\ ThisCell.step \in {"import", "def", "config", "empty", "comment",
                          "size", "versions"}
    /\ Advance(ThisCell.binds)
    /\ out' = IF nb = "thread_locking" /\ ThisCell.step = "size"
              THEN Append(out, [cell |-> cell,
                                value |-> ds_size_mb(globals[ArgOf(ThisCell)])])
              ELSE out
    /\ disk' = disk \cup DiskWrites(nb, cell)
    /\ remote' = remote \cup RemoteWrites(nb, cell)
    /\ UNCHANGED << kernelVars, globals, pc, callVars, result, opens, trace >>

\* ds = load_combined_dataset(start_date, num_hours, level, param_short_name)
CellCall ==
    /\ AtCell
    /\ ThisCell.reads \subseteq defined
    /\ ThisCell.step = "call"
    /\ \E sd \in StartDates, n \in 0..MaxHours, lv \in Levels, pm \in Params :
         args' = [start_date |-> sd, num_hours |-> n, level |-> lv,
                  param |-> pm]
    /\ pc' = IF nb = "not_mf" THEN "gurl" ELSE "init"
    /\ UNCHANGED << kernelVars, cellVars, defined, cell, status, err, i, time, urls,
                    target, ds, grid, datasets, combined_ds, result, opens,
                    trace, storeVars >>

\* std_dev = ds.TMP.std(dim="time") [; std_dev.values], and thread_locking's
\* ds.PRES.mean(dim="time").values.  On the result of load_combined_dataset
\* it needs a dataset with a data variable and a time dimension.
CellReduce ==
    /\ AtCell
    /\ ThisCell.reads \subseteq defined
    /\ ThisCell.step = "reduce"
    /\ \E ok \in BOOLEAN :
         /\ (nb \in {"part_000", "not_mf"} /\ ok)
              => (result # None /\ result.nvars > 0 /\ result.timeDim)
         /\ IF ok
            THEN /\ Advance(ThisCell.binds)
                 /\ trace' = Step(trace, "reduce", -1, "end")
                 /\ globals' = IF nb = "thread_locking"
                               THEN AfterReduce(globals, ArgOf(ThisCell),
                                                << cell, "_" >>)
                               ELSE globals
            ELSE /\ CellFails("reduce")
                 /\ trace' = Step(trace, "reduce", -1, "raise")
                 /\ globals' = globals
    /\ disk' = disk \cup DiskWrites(nb, cell)
    /\ remote' = remote \cup RemoteWrites(nb, cell)
    /\ UNCHANGED << kernelVars, out, pc, callVars, result, opens >>

\* ax.contourf(...); plt.show()
CellPlot ==
    /\ AtCell
    /\ ThisCell.reads \subseteq defined
    /\ ThisCell.step = "plot"
    /\ \E ok \in BOOLEAN :
         IF ok
         THEN /\ Advance(ThisCell.binds)
              /\ trace' = Step(trace, "plot", -1, "end")
         ELSE /\ CellFails("plot")
              /\ trace' = Step(trace, "plot", -1, "raise")
    /\ disk' = disk \cup DiskWrites(nb, cell)
    /\ remote' = remote \cup RemoteWrites(nb, cell)
    /\ UNCHANGED << kernelVars, cellVars, pc, callVars, result, opens >>

\* A cell that opens a remote dataset and reads its values:
\* thread_locking's xr.open_zarr(lookup(...)) and projection's
\* load_example_data().
CellOpenRead ==
    /\ AtCell
    /\ ThisCell.reads \subseteq defined
    /\ ThisCell.step = "open_read"
    /\ \E ok \in BOOLEAN :
         /\ IF ok THEN Advance(ThisCell.binds) ELSE CellFails("open")
         /\ trace' = Step(trace, "open", -1, IF ok THEN "end" ELSE "raise")
         /\ globals' =
              IF ok /\ nb = "thread_locking"
              THEN LET d == OpenZarr(archive.arrays[OpenedPath],
                                     << cell, "ds_from_s3" >>)
                   IN [globals EXCEPT !["ds_from_s3"] = d,
                                      !["_"] = ValuesOf(d, << cell, "_" >>)]
              ELSE IF ok /\ nb = "projection"
              THEN [globals EXCEPT
                      !["surface_temp"] =
                          Opened(reference_time, 1, TRUE, archive.attrs[0])]
              ELSE globals
    /\ disk' = disk \cup DiskWrites(nb, cell)
    /\ remote' = remote \cup RemoteWrites(nb, cell)
    /\ UNCHANGED << kernelVars, out, pc, callVars, result, opens >>

\* ds_from_local = xr.open_zarr("downloaded.zarr"): the local copy must be
\* there.
CellOpenLocal ==
    /\ AtCell
    /\ ThisCell.reads \subseteq defined
    /\ ThisCell.step = "open_local"
    /\ IF LocalPath \in disk
       THEN /\ Advance(ThisCell.binds)
            /\ trace' = Step(trace, "open", -1, "end")
            /\ globals' = [globals EXCEPT
                              !["ds_from_local"] =
                                  OpenZarr(Downloaded,
                                           << cell, "ds_from_local" >>)]
       ELSE /\ CellFails("open")
            /\ trace' = Step(trace, "open", -1, "raise")
            /\ globals' = globals
    /\ disk' = disk \cup DiskWrites(nb, cell)
    /\ remote' = remote \cup RemoteWrites(nb, cell)
    /\ UNCHANGED << kernelVars, out, pc, callVars, result, opens >>

\* surface_temp = assign_coordinates(surface_temp)
\* Any of its three statements may raise (failAt names it, 0 for none);
\* surface_temp is rebound only when the function returns.
CellRepair ==
    /\ AtCell
    /\ ThisCell.reads \subseteq defined
    /\ ThisCell.step = "repair"
    /\ \E failAt \in 0..Len(RepairSteps) :
         LET done == IF failAt = 0 THEN RepairSteps
                     ELSE SubSeq(RepairSteps, 1, failAt - 1)
         IN IF failAt = 0
            THEN /\ Advance(ThisCell.binds)
                 /\ trace' = StepsDone(trace, done)
                 /\ globals' = [globals EXCEPT
                                  !["surface_temp"] = assign_coordinates(@)]
            ELSE /\ CellFails(RepairSteps[failAt])
                 /\ trace' = Step(StepsDone(trace, done), RepairSteps[failAt],
                                  -1, "raise")
                 /\ globals' = globals
    /\ disk' = disk \cup DiskWrites(nb, cell)
    /\ remote' = remote \cup RemoteWrites(nb, cell)
    /\ UNCHANGED << kernelVars, out, pc, callVars, result, opens >>

\* ------------------------------------------------------------------------
\* Statements of load_combined_dataset
\* ------------------------------------------------------------------------

\* A cell, or a statement of the running call, reads a global name that no
\* earlier cell (and not the kernel) has bound: NameError.  Nothing handles
\* it.
NameError ==
    /\ status = "running"
    /\ pc # "idle" \/ cell <= Len(Cells(nb))
    /\ IF pc = "idle"
       THEN /\ ~ (ThisCell.reads \subseteq defined)
            /\ CellFails("NameError")
            /\ UNCHANGED << pc, i >>
       ELSE /\ ~ Bound
            /\ Raise("NameError")
            /\ UNCHANGED << defined, cell >>
    /\ UNCHANGED << kernelVars, cellVars, args, time, urls, target, ds, grid, datasets,
                    combined_ds, result, opens, trace, storeVars >>

\* --- the open_dataset implementation (not_mf) ---------------------------

\* group_url_format = f"..."; group_url = start_date.strftime(...);
\* grid = load(group_url): enters load with time=None.
NM_GroupUrl ==
    /\ InCall /\ nb = "not_mf" /\ pc = "gurl" /\ Bound
    /\ urls' = << GroupUrl(args.start_date, args.level, args.param) >>
    /\ time' = None
    /\ target' = "grid"
    /\ pc' = "L_open"
    /\ trace' = Step(trace, "url", -1, "end")
    /\ UNCHANGED << kernelVars, cellVars, defined, cell, status, err, args, i, ds, grid,
                    datasets, combined_ds, result, opens, storeVars >>

\* load: ds = xr.open_dataset(s3fs.S3Map(url, s3=fs), engine="zarr")
L_Open ==
    /\ InCall /\ nb = "not_mf" /\ pc = "L_open" /\ Bound
    /\ LET hour == IF target = "grid" THEN -1 ELSE i
           inst == IF target = "grid" THEN args.start_date ELSE time
       IN \E ok \in BOOLEAN, nv \in 0..1 :
            /\ (target = "grid" \/ ~ ok) => nv = 0
            /\ opens' = LogOpen(urls, hour, ok, nv)
            /\ trace' = Step(trace, "open", hour, IF ok THEN "end" ELSE "raise")
            /\ IF ok
               THEN /\ ds' = Opened(inst, nv, target = "grid",
                                    archive.attrs[IF hour < 0 THEN 0 ELSE hour])
                    /\ pc' = "L_time"
                    /\ UNCHANGED << status, err, i >>
               ELSE /\ Raise("open")
                    /\ ds' = ds
    /\ remote' = remote \cup OpenWrites(urls)
    /\ UNCHANGED << kernelVars, cellVars, defined, cell, args, time, urls, target, grid,
                    datasets, combined_ds, result, disk >>

\* load: ds["time"] = time; ds = ds.set_coords("time")
L_SetTime ==
    /\ InCall /\ nb = "not_mf" /\ pc = "L_time" /\ Bound
    /\ ds' = [ds EXCEPT !.time = << time >>, !.timeCoord = TRUE]
    /\ pc' = "L_rename"
    /\ trace' = Step(trace, "set_time", IF target = "grid" THEN -1 ELSE i, "end")
    /\ UNCHANGED << kernelVars, cellVars, defined, cell, status, err, args, i, time,
                    urls, target, grid, datasets, combined_ds, result, opens,
                    storeVars >>

\* load: ds = ds.rename(projection_x_coordinate="x", ...); return ds.  The
\* caller binds it: grid = load(group_url), or
\* datasets.append(load(subgroup_url, time=time)) and the next i.
L_Rename ==
    /\ InCall /\ nb = "not_mf" /\ pc = "L_rename" /\ Bound
    /\ LET hour == IF target = "grid" THEN -1 ELSE i
           renamed == [ds EXCEPT !.renamed = TRUE]
       IN \E ok \in BOOLEAN :
            /\ trace' = Step(trace, "rename", hour, IF ok THEN "end" ELSE "raise")
            /\ IF ~ ok
               THEN /\ Raise("rename")
                    /\ UNCHANGED << ds, grid, datasets >>
               ELSE /\ ds' = renamed
                    /\ UNCHANGED << status, err >>
                    /\ IF target = "grid"
                       THEN /\ grid' = renamed
                            /\ pc' = "datasets"
                            /\ UNCHANGED << datasets, i >>
                       ELSE /\ datasets' = Append(datasets, renamed)
                            /\ i' = i + 1
                            /\ pc' = "for"
                            /\ grid' = grid
    /\ UNCHANGED << kernelVars, cellVars, defined, cell, args, time, urls, target,
                    combined_ds, result, opens, storeVars >>

\* datasets = []
NM_Datasets ==
    /\ InCall /\ nb = "not_mf" /\ pc = "datasets" /\ Bound
    /\ datasets' = << >>
    /\ i' = 0
    /\ pc' = "for"
    /\ UNCHANGED << kernelVars, cellVars, defined, cell, status, err, args, time, urls,
                    target, ds, grid, combined_ds, result, opens, trace,
                    storeVars >>

\* A loop that returns the grid dataset when no hour was asked for.
NM_ForNoConcat ==
    /\ InCall /\ nb = "not_mf" /\ pc = "for" /\ Bound
    /\ pc' = IF InRange(i, args.num_hours) THEN "url"
             ELSE IF datasets = << >> THEN "return" ELSE "concat"
    /\ UNCHANGED << kernelVars, cellVars, defined, cell, status, err, args, i, time,
                    urls, target, ds, grid, datasets, combined_ds, result,
                    opens, trace, storeVars >>

\* for i in range(num_hours):
NM_For ==
    /\ InCall /\ nb = "not_mf" /\ pc = "for" /\ Bound
    /\ pc' = IF InRange(i, args.num_hours) THEN "url" ELSE "concat"
    /\ UNCHANGED << kernelVars, cellVars, defined, cell, status, err, args, i, time,
                    urls, target, ds, grid, datasets, combined_ds, result,
                    opens, trace, storeVars >>

\* time = start_date + datetime.timedelta(hours=i);
\* subgroup_url = time.strftime(group_url_format) + f"/{level}"
NM_Url ==
    /\ InCall /\ nb = "not_mf" /\ pc = "url" /\ Bound
    /\ time' = AddHours(args.start_date, i)
    /\ urls' = << SubgroupUrl(time', args.level, args.param) >>
    /\ target' = "hour"
    /\ pc' = "L_open"
    /\ trace' = Step(trace, "url", i, "end")
    /\ UNCHANGED << kernelVars, cellVars, defined, cell, status, err, args, i, ds, grid,
                    datasets, combined_ds, result, opens, storeVars >>

\* ds = xr.concat(datasets, dim="time", combine_attrs="override"): an empty
\* list is a ValueError.
NM_Concat ==
    /\ InCall /\ nb = "not_mf" /\ pc = "concat" /\ Bound
    /\ \E ok \in BOOLEAN :
         /\ ok => datasets # << >>
         /\ trace' = Step(trace, "concat", -1, IF ok THEN "end" ELSE "raise")
         /\ IF ok
            THEN /\ ds' = Concat(datasets)
                 /\ pc' = "assign_grid"
                 /\ UNCHANGED << status, err, i >>
            ELSE /\ Raise("concat")
                 /\ ds' = ds
    /\ UNCHANGED << kernelVars, cellVars, defined, cell, args, time, urls, target, grid,
                    datasets, combined_ds, result, opens, storeVars >>

\* An assignment that takes the time of the grid dataset along with its
\* x and y.
NM_AssignGridWithTime ==
    /\ InCall /\ nb = "not_mf" /\ pc = "assign_grid" /\ Bound
    /\ \E ok \in BOOLEAN :
         /\ trace' = Step(trace, "assign_grid", -1, IF ok THEN "end" ELSE "raise")
         /\ IF ok
            THEN /\ ds' = [ds EXCEPT !.grid = grid.grid,
                                     !.time = grid.time \o @]
                 /\ pc' = "crs"
                 /\ UNCHANGED << status, err, i >>
            ELSE /\ Raise("assign_grid")
                 /\ ds' = ds
    /\ UNCHANGED << kernelVars, cellVars, defined, cell, args, time, urls, target, grid,
                    datasets, combined_ds, result, opens, storeVars >>

\* ds["x"] = grid["x"]; ds["y"] = grid["y"]
NM_AssignGrid ==
    /\ InCall /\ nb = "not_mf" /\ pc = "assign_grid" /\ Bound
    /\ \E ok \in BOOLEAN :
         /\ trace' = Step(trace, "assign_grid", -1, IF ok THEN "end" ELSE "raise")
         /\ IF ok
            THEN /\ ds' = [ds EXCEPT !.grid = grid.grid]
                 /\ pc' = "crs"
                 /\ UNCHANGED << status, err, i >>
            ELSE /\ Raise("assign_grid")
                 /\ ds' = ds
    /\ UNCHANGED << kernelVars, cellVars, defined, cell, args, time, urls, target, grid,
                    datasets, combined_ds, result, opens, storeVars >>

\* ds = ds.metpy.assign_crs(projection.to_cf())
NM_AssignCrs ==
    /\ InCall /\ nb = "not_mf" /\ pc = "crs" /\ Bound
    /\ \E ok \in BOOLEAN :
         /\ trace' = Step(trace, "assign_crs", -1, IF ok THEN "end" ELSE "raise")
         /\ IF ok
            THEN /\ ds' = [ds EXCEPT !.crs = TRUE]
                 /\ pc' = "latlon"
                 /\ UNCHANGED << status, err, i >>
            ELSE /\ Raise("assign_crs")
                 /\ ds' = ds
    /\ UNCHANGED << kernelVars, cellVars, defined, cell, args, time, urls, target, grid,
                    datasets, combined_ds, result, opens, storeVars >>

\* ds = ds.metpy.assign_latitude_longitude()
NM_AssignLatLon ==
    /\ InCall /\ nb = "not_mf" /\ pc = "latlon" /\ Bound
    /\ \E ok \in BOOLEAN :
         /\ trace' = Step(trace, "assign_latlon", -1, IF ok THEN "end" ELSE "raise")
         /\ IF ok
            THEN /\ ds' = [ds EXCEPT !.latlon = TRUE]
                 /\ pc' = "return"
                 /\ UNCHANGED << status, err, i >>
            ELSE /\ Raise("assign_latlon")
                 /\ ds' = ds
    /\ UNCHANGED << kernelVars, cellVars, defined, cell, args, time, urls, target, grid,
                    datasets, combined_ds, result, opens, storeVars >>

\* return ds: the calling cell binds the global ds.
NM_Return ==
    /\ InCall /\ nb = "not_mf" /\ pc = "return" /\ Bound
    /\ result' = ds
    /\ pc' = "idle"
    /\ Advance(ThisCell.binds)
    /\ UNCHANGED << kernelVars, cellVars, callVars, opens, trace, storeVars >>

\* --- the open_mfdataset implementation (part_000) -----------------------

\* A start from an empty dataset in place of None.
MF_InitEmpty ==
    /\ InCall /\ nb = "part_000" /\ pc = "init" /\ Bound
    /\ combined_ds' = Opened(args.start_date, 0, TRUE, NoAttrs)
    /\ i' = 0
    /\ pc' = "for"
    /\ UNCHANGED << kernelVars, cellVars, defined, cell, status, err, args, time, urls,
                    target, ds, grid, datasets, result, opens, trace,
                    storeVars >>

\* combined_ds = None
MF_Init ==
    /\ InCall /\ nb = "part_000" /\ pc = "init" /\ Bound
    /\ combined_ds' = None
    /\ i' = 0
    /\ pc' = "for"
    /\ UNCHANGED << kernelVars, cellVars, defined, cell, status, err, args, time, urls,
                    target, ds, grid, datasets, result, opens, trace,
                    storeVars >>

\* for i in range(num_hours):
MF_For ==
    /\ InCall /\ nb = "part_000" /\ pc = "for" /\ Bound
    /\ pc' = IF InRange(i, args.num_hours) THEN "url" ELSE "return"
    /\ UNCHANGED << kernelVars, cellVars, defined, cell, status, err, args, i, time,
                    urls, target, ds, grid, datasets, combined_ds, result,
                    opens, trace, storeVars >>

\* time = start_date + datetime.timedelta(hours=i);
\* group_url = time.strftime(f"..."); subgroup_url = group_url + f"/{level}";
\* load_dataset([group_url, subgroup_url]) is entered.
MF_Url ==
    /\ InCall /\ nb = "part_000" /\ pc = "url" /\ Bound
    /\ time' = AddHours(args.start_date, i)
    /\ urls' = << GroupUrl(time', args.level, args.param),
                  SubgroupUrl(time', args.level, args.param) >>
    /\ target' = "hour"
    /\ pc' = "D_open"
    /\ trace' = Step(trace, "url", i, "end")
    /\ UNCHANGED << kernelVars, cellVars, defined, cell, status, err, args, i, ds, grid,
                    datasets, combined_ds, result, opens, storeVars >>

\* load_dataset: fs = s3fs.S3FileSystem(anon=True);
\* ds = xr.open_mfdataset([s3fs.S3Map(url, s3=fs) for url in urls], engine='zarr')
D_Open ==
    /\ InCall /\ nb = "part_000" /\ pc = "D_open" /\ Bound
    /\ \E ok \in BOOLEAN, nv \in 0..1 :
         /\ ~ ok => nv = 0
         /\ opens' = LogOpen(urls, i, ok, nv)
         /\ trace' = Step(trace, "open", i, IF ok THEN "end" ELSE "raise")
         /\ IF ok
            THEN /\ ds' = Opened(time, nv, TRUE, archive.attrs[i])
                 /\ pc' = "D_rename"
                 /\ UNCHANGED << status, err, i >>
            ELSE /\ Raise("open")
                 /\ ds' = ds
    /\ remote' = remote \cup OpenWrites(urls)
    /\ UNCHANGED << kernelVars, cellVars, defined, cell, args, time, urls, target, grid,
                    datasets, combined_ds, result, disk >>

\* load_dataset: ds = ds.rename(projection_x_coordinate="x", ...)
D_Rename ==
    /\ InCall /\ nb = "part_000" /\ pc = "D_rename" /\ Bound
    /\ \E ok \in BOOLEAN :
         /\ trace' = Step(trace, "rename", i, IF ok THEN "end" ELSE "raise")
         /\ IF ok
            THEN /\ ds' = [ds EXCEPT !.renamed = TRUE]
                 /\ pc' = "D_crs"
                 /\ UNCHANGED << status, err, i >>
            ELSE /\ Raise("rename")
                 /\ ds' = ds
    /\ UNCHANGED << kernelVars, cellVars, defined, cell, args, time, urls, target, grid,
                    datasets, combined_ds, result, opens, storeVars >>

\* load_dataset: ds = ds.metpy.assign_crs(grid_mapping_name=..., ...)
D_AssignCrs ==
    /\ InCall /\ nb = "part_000" /\ pc = "D_crs" /\ Bound
    /\ \E ok \in BOOLEAN :
         /\ trace' = Step(trace, "assign_crs", i, IF ok THEN "end" ELSE "raise")
         /\ IF ok
            THEN /\ ds' = [ds EXCEPT !.crs = TRUE]
                 /\ pc' = "D_latlon"
                 /\ UNCHANGED << status, err, i >>
            ELSE /\ Raise("assign_crs")
                 /\ ds' = ds
    /\ UNCHANGED << kernelVars, cellVars, defined, cell, args, time, urls, target, grid,
                    datasets, combined_ds, result, opens, storeVars >>

\* load_dataset: ds = ds.metpy.assign_latitude_longitude()
D_AssignLatLon ==
    /\ InCall /\ nb = "part_000" /\ pc = "D_latlon" /\ Bound
    /\ \E ok \in BOOLEAN :
         /\ trace' = Step(trace, "assign_latlon", i, IF ok THEN "end" ELSE "raise")
         /\ IF ok
            THEN /\ ds' = [ds EXCEPT !.latlon = TRUE]
                 /\ pc' = "D_setcoords"
                 /\ UNCHANGED << status, err, i >>
            ELSE /\ Raise("assign_latlon")
                 /\ ds' = ds
    /\ UNCHANGED << kernelVars, cellVars, defined, cell, args, time, urls, target, grid,
                    datasets, combined_ds, result, opens, storeVars >>

\* A load_dataset that returns without promoting time.
D_SetCoordsSkipped ==
    /\ InCall /\ nb = "part_000" /\ pc = "D_setcoords" /\ Bound
    /\ \E ok \in BOOLEAN :
         /\ trace' = Step(trace, "return", i, IF ok THEN "end" ELSE "raise")
         /\ IF ok
            THEN /\ ds' = ds
                 /\ pc' = "combine"
                 /\ UNCHANGED << status, err, i >>
            ELSE /\ Raise("set_coords")
                 /\ ds' = ds
    /\ UNCHANGED << kernelVars, cellVars, defined, cell, args, time, urls, target, grid,
                    datasets, combined_ds, result, opens, storeVars >>

\* load_dataset: ds = ds.set_coords("time"); return ds
D_SetCoords ==
    /\ InCall /\ nb = "part_000" /\ pc = "D_setcoords" /\ Bound
    /\ \E ok \in BOOLEAN :
         /\ trace' = Step(trace, "set_coords", i, IF ok THEN "end" ELSE "raise")
         /\ IF ok
            THEN /\ ds' = [ds EXCEPT !.timeCoord = TRUE]
                 /\ pc' = "combine"
                 /\ UNCHANGED << status, err, i >>
            ELSE /\ Raise("set_coords")
                 /\ ds' = ds
    /\ UNCHANGED << kernelVars, cellVars, defined, cell, args, time, urls, target, grid,
                    datasets, combined_ds, result, opens, storeVars >>

\* if not combined_ds: combined_ds = partial_ds
\* else: combined_ds = xr.concat([combined_ds, partial_ds], dim="time",
\*                               combine_attrs="drop_conflicts")
MF_Combine ==
    /\ InCall /\ nb = "part_000" /\ pc = "combine" /\ Bound
    /\ IF ~ Truthy(combined_ds)
       THEN /\ combined_ds' = ds
            /\ i' = i + 1
            /\ pc' = "for"
            /\ UNCHANGED << status, err, trace >>
       ELSE \E ok \in BOOLEAN :
              /\ trace' = Step(trace, "concat", i, IF ok THEN "end" ELSE "raise")
              /\ IF ok
                 THEN /\ combined_ds' = ConcatDropConflicts(<< combined_ds, ds >>)
                      /\ i' = i + 1
                      /\ pc' = "for"
                      /\ UNCHANGED << status, err >>
                 ELSE /\ Raise("concat")
                      /\ combined_ds' = combined_ds
    /\ UNCHANGED << kernelVars, cellVars, defined, cell, args, time, urls, target, ds,
                    grid, datasets, result, opens, storeVars >>

\* return combined_ds: the calling cell binds the global ds.
MF_Return ==
    /\ InCall /\ nb = "part_000" /\ pc = "return" /\ Bound
    /\ result' = combined_ds
    /\ pc' = "idle"
    /\ Advance(ThisCell.binds)
    /\ UNCHANGED << kernelVars, cellVars, callVars, opens, trace, storeVars >>

\* ------------------------------------------------------------------------
\* The specification
\* ------------------------------------------------------------------------

Next ==
    \/ NameError
    \/ CellPlain
    \/ CellCall
    \/ CellReduce
    \/ CellPlot
    \/ CellOpenRead
    \/ CellOpenLocal
    \/ CellRepair
    \/ NM_GroupUrl
    \/ L_Open
    \/ L_SetTime
    \/ L_Rename
    \/ NM_Datasets
    \/ NM_For
    \/ NM_Url
    \/ NM_Concat
    \/ NM_AssignGrid
    \/ NM_AssignCrs
    \/ NM_AssignLatLon
    \/ NM_Return
    \/ MF_Init
    \/ MF_For
    \/ MF_Url
    \/ D_Open
    \/ D_Rename
    \/ D_AssignCrs
    \/ D_AssignLatLon
    \/ D_SetCoords
    \/ MF_Combine
    \/ MF_Return

Spec == Init /\ [][Next]_vars

SpecAttrs == InitAttrs /\ [][Next]_vars

\* ------------------------------------------------------------------------
\* Vocabulary of the claims
\* ------------------------------------------------------------------------

Returned == "ds" \in defined

InLoadCombined == nb \in {"part_000", "not_mf"}

\* n in decimal, w digits wide, zero-padded.
RECURSIVE Dec(_, _)
Dec(n, w) == IF w = 0 THEN << >> ELSE Dec(n \div 10, w - 1) \o << Digit(n % 10) >>

YYYYMMDD(t) == Dec(t.year, 4) \o Dec(t.month, 2) \o Dec(t.day, 2)

\* The path convention: s3://hrrrzarr/sfc/<YYYYMMDD>/<YYYYMMDD>_<HH>z_anl.zarr/<level>/<variable>
ConventionUrl(t, level, variable) ==
    << "s3://hrrrzarr/sfc/" >> \o YYYYMMDD(t) \o << "/" >> \o YYYYMMDD(t)
        \o << "_" >> \o Dec(t.hour, 2) \o << "z_anl.zarr/", level, "/", variable >>

\* The instant an open of the log is for: start_date + hour, and start_date
\* for the grid open (hour -1).
InstantOf(e) == AddHours(args.start_date, IF e.hour < 0 THEN 0 ELSE e.hour)

\* The group URL an entry of the open log is built from, and its subgroup URL
\* (<< >> when the open is given none).
GroupOf(e) ==
    IF nb = "part_000" \/ e.hour < 0 THEN e.urls[1]
    ELSE SubSeq(e.urls[1], 1, Len(e.urls[1]) - 2)

SubgroupOf(e) ==
    IF nb = "part_000" THEN e.urls[2]
    ELSE IF e.hour < 0 THEN << >> ELSE e.urls[1]

\* C1: every group URL load_combined_dataset builds is
\* s3://hrrrzarr/sfc/<YYYYMMDD>/<YYYYMMDD>_<HH>z_anl.zarr/<level>/<variable>
\* for the date and hour of start_date + i hours, and every subgroup URL is
\* that group URL followed by /<level>.
C1_UrlConvention ==
    \A k \in 1..Len(opens) :
        LET e == opens[k]
        IN /\ GroupOf(e) = ConventionUrl(InstantOf(e), args.level, args.param)
           /\ e.hour >= 0 =>
                SubgroupOf(e) = ConventionUrl(InstantOf(e), args.level, args.param)
                                   \o << "/", args.level >>

\* The time axis of a dataset: the values along its time dimension; a
\* dataset whose time is a scalar has no time axis.
TimeAxis(d) == IF d # None /\ d.timeDim THEN d.time ELSE << >>

\* C2: for num_hours >= 1 the dataset load_combined_dataset returns has
\* exactly num_hours entries along the time axis, the i-th (0-based) being
\* start_date + i hours.
C2_OneEntryPerHour ==
    (InLoadCombined /\ Returned /\ args.num_hours >= 1) =>
        /\ Len(TimeAxis(result)) = args.num_hours
        /\ \A k \in 1..Len(TimeAxis(result)) :
              TimeAxis(result)[k] = AddHours(args.start_date, k - 1)

\* How many opens of the log were given exactly the URL u.
CountOpens(u) == Cardinality({ k \in 1..Len(opens) : opens[k].urls = << u >> })

StartGroupUrl == GroupUrl(args.start_date, args.level, args.param)

HourSubgroupUrl(h) ==
    SubgroupUrl(AddHours(args.start_date, h), args.level, args.param)

\* The loop of the open_dataset implementation has run to its end: the call
\* is at or past the concatenation.
LoopDone ==
    \/ pc \in {"concat", "assign_grid", "crs", "latlon", "return"}
    \/ pc = "idle" /\ Returned
    \/ pc = "raised" /\ err \in {"concat", "assign_grid", "assign_crs",
                                 "assign_latlon"}

\* C4: the open_dataset implementation opens the group-level URL once per
\* call, for start_date and before any other open, and the subgroup URL once
\* per requested hour: a call whose loop has run to its end has performed
\* exactly num_hours + 1 opens, and no call opens any of these URLs twice.
C4_OpensPerCall ==
    (nb = "not_mf" /\ (pc # "idle" \/ Returned)) =>
        /\ CountOpens(StartGroupUrl) <= 1
        /\ \A h \in 0..(args.num_hours - 1) : CountOpens(HourSubgroupUrl(h)) <= 1
        /\ Len(opens) >= 1 => opens[1].urls = << StartGroupUrl >>
        /\ LoopDone =>
             /\ Len(opens) = args.num_hours + 1
             /\ CountOpens(StartGroupUrl) = 1
             /\ \A h \in 0..(args.num_hours - 1) :
                   CountOpens(HourSubgroupUrl(h)) = 1

C4_Witness ==
    /\ nb = "not_mf" /\ Returned /\ args.num_hours >= 2
    /\ Len(opens) = args.num_hours + 1

\* C6: run once each in document order in a fresh kernel, no cell and no
\* function a cell calls reads a name that no earlier cell has bound.
C6_NoUndefinedName == kernel0 = {} => err # "NameError"

\* Positions of the step log.
Pos == 1..Len(trace)

Begins(k) == trace[k].ev = "begin"

Ends(k) == trace[k].ev \in {"end", "raise"}

CallSteps == {"open", "rename", "concat", "assign_grid", "assign_crs",
              "assign_latlon", "set_coords"}

\* C8: a failing open, rename, concatenation or coordinate assignment inside
\* load_combined_dataset ends the call with that error: it is the last step
\* of the run, no open follows it, and no dataset is returned.
C8_ErrorsPropagate ==
    InLoadCombined =>
        \A k \in Pos :
            (trace[k].ev = "raise" /\ trace[k].step \in CallSteps) =>
                /\ k = Len(trace)
                /\ status = "error"
                /\ err = trace[k].step
                /\ ~ Returned
                /\ result = Unbound
                /\ \A e \in 1..Len(opens) :
                      (trace[k].hour >= 0 => opens[e].hour <= trace[k].hour)
                /\ trace[k].step = "open" => ~ opens[Len(opens)].ok

C8_Witness ==
    /\ nb = "not_mf" /\ args.num_hours >= 3
    /\ trace # << >>
    /\ trace[Len(trace)].ev = "raise" /\ trace[Len(trace)].step = "rename"
    /\ trace[Len(trace)].hour = 1
    /\ Len(opens) = 3

\* C9: within one call no step is repeated for the same hour, and each
\* per-hour subgroup URL is given to an open at most once, whether the open
\* succeeds or fails.
C9_NoRetries ==
    InLoadCombined =>
        /\ \A a \in Pos, b \in Pos :
              (a < b /\ Begins(a) /\ Begins(b) /\ trace[a].hour >= 0
                 /\ trace[a].hour = trace[b].hour)
                  => trace[a].step # trace[b].step
        /\ \A a \in 1..Len(opens), b \in 1..Len(opens) :
              (a < b /\ opens[a].hour >= 0 /\ opens[b].hour >= 0)
                  => SubgroupOf(opens[a]) # SubgroupOf(opens[b])

C9_Witness ==
    /\ nb = "part_000" /\ args.num_hours >= 3
    /\ Len(opens) = 3
    /\ ~ opens[3].ok
    /\ opens[1].ok /\ opens[2].ok

\* C10: no step of any notebook writes to the local disk or to the object
\* store: both stay as they were when the run started.
C10_NoPersistence == [][disk' = disk /\ remote' = remote]_vars

C10_Witness ==
    /\ nb = "thread_locking" /\ status = "finished"
    /\ "downloaded.zarr" \in disk /\ remote = {}

\* ------------------------------------------------------------------------
\* Calendar arithmetic of the claims: day numbers, computed in closed form
\* ------------------------------------------------------------------------

LeapYear(y) == (y % 400 = 0) \/ (y % 4 = 0 /\ y % 100 # 0)

DaysBeforeMonth(y, m) ==
    << 0, 31, 59, 90, 120, 151, 181, 212, 243, 273, 304, 334 >>[m]
        + (IF m > 2 /\ LeapYear(y) THEN 1 ELSE 0)

MonthLength(y, m) ==
    << 31, 28, 31, 30, 31, 30, 31, 31, 30, 31, 30, 31 >>[m]
        + (IF m = 2 /\ LeapYear(y) THEN 1 ELSE 0)

\* Days since 0001-01-01 of the proleptic Gregorian calendar.
DayNumber(y, m, d) ==
    365 * (y - 1) + ((y - 1) \div 4) - ((y - 1) \div 100) + ((y - 1) \div 400)
        + DaysBeforeMonth(y, m) + d

AbsHour(t) == 24 * DayNumber(t.year, t.month, t.day) + t.hour

\* The number a run of digit tokens spells.
IsDigit(c) == \E k \in 0..9 : Digit(k) = c

AllDigits(ds0) == \A k \in 1..Len(ds0) : IsDigit(ds0[k])

DigitVal(c) == CHOOSE k \in 0..9 : Digit(k) = c

RECURSIVE Num(_)
Num(ds0) ==
    IF ds0 = << >> THEN 0
    ELSE 10 * Num(SubSeq(ds0, 1, Len(ds0) - 1)) + DigitVal(ds0[Len(ds0)])

\* The fields of a URL: the date of the directory component, the date and
\* the hour of the file-name component.
DirDate(u) == SubSeq(u, 2, 9)

FileDate(u) == SubSeq(u, 11, 18)

FileHour(u) == SubSeq(u, 20, 21)

\* The hour offset an entry of the open log was built for (the grid open
\* is for start_date itself).
OffsetOf(e) == IF e.hour < 0 THEN 0 ELSE e.hour

\* C13: in every URL load_combined_dataset builds the date of the directory
\* component equals the date of the file-name component, and with the hour
\* they spell the one instant start_date + i hours: the hour is
\* (start hour + i) mod 24 and the date, a valid calendar date, lies
\* (start hour + i) div 24 days after the start date in both positions.
C13_OneInstantPerUrl ==
    InLoadCombined =>
        \A k \in 1..Len(opens) : \A j \in 1..Len(opens[k].urls) :
            LET u == opens[k].urls[j]
                h0 == args.start_date.hour + OffsetOf(opens[k])
                y == Num(SubSeq(u, 11, 14))
                m == Num(SubSeq(u, 15, 16))
                d == Num(SubSeq(u, 17, 18))
            IN /\ DirDate(u) = FileDate(u)
               /\ AllDigits(FileDate(u)) /\ AllDigits(FileHour(u))
               /\ Num(FileHour(u)) = h0 % 24
               /\ m \in 1..12
               /\ d \in 1..MonthLength(y, m)
               /\ DayNumber(y, m, d)
                    = DayNumber(args.start_date.year, args.start_date.month,
                                args.start_date.day) + (h0 \div 24)

C13_Witness ==
    /\ InLoadCombined
    /\ \E k \in 1..Len(opens) : \E j \in 1..Len(opens[k].urls) :
          /\ args.start_date.hour + OffsetOf(opens[k]) >= 24
          /\ Num(FileHour(opens[k].urls[j])) = 0
          /\ Num(SubSeq(opens[k].urls[j], 15, 18)) = 229

\* C14: the time values the loop gives the per-hour datasets are
\* start_date + i hours, strictly increasing and so pairwise distinct, and
\* the per-hour subgroup URLs are pairwise distinct.
C14_TimesIncrease ==
    /\ nb = "not_mf" =>
          /\ \A a \in 1..Len(datasets) :
                /\ Len(datasets[a].time) = 1
                /\ AbsHour(datasets[a].time[1])
                     = AbsHour(args.start_date) + (a - 1)
          /\ \A a \in 1..Len(datasets), b \in 1..Len(datasets) :
                a < b => /\ AbsHour(datasets[a].time[1])
                              < AbsHour(datasets[b].time[1])
                         /\ datasets[a].time # datasets[b].time
    /\ InLoadCombined =>
          \A a \in 1..Len(opens), b \in 1..Len(opens) :
              (a # b /\ opens[a].hour >= 0 /\ opens[b].hour >= 0)
                  => opens[a].urls[Len(opens[a].urls)]
                        # opens[b].urls[Len(opens[b].urls)]

C14_Witness ==
    /\ nb = "not_mf" /\ Len(datasets) >= 3
    /\ datasets[1].time[1].year < datasets[3].time[1].year

\* A call of load_combined_dataset has been made (the call cell has drawn
\* its arguments).
Called == InLoadCombined /\ args # NoArgs

\* The steps of the trace that build or open a URL.
UrlSteps == { k \in Pos : trace[k].step \in {"url", "open"} }

\* C18: with num_hours = 0 the open_mfdataset implementation never enters
\* its loop: it builds no URL, opens nothing, raises nothing, and what it
\* returns is None.
C18_ZeroHoursReturnsNone ==
    (nb = "part_000" /\ Called /\ args.num_hours = 0) =>
        /\ pc \in {"init", "for", "return", "idle"}
        /\ err # "concat" /\ err # "open"
        /\ urls = << >> /\ time = None
        /\ opens = << >>
        /\ UrlSteps = {}
        /\ combined_ds = None
        /\ Returned => result = None

C18_Witness ==
    /\ nb = "part_000" /\ Called /\ args.num_hours = 0
    /\ Returned /\ result = None /\ opens = << >>

\* The errors that stop not_mf inside load, before the loop is over.
LoadErrors == {"NameError", "open", "rename"}

\* C19: with num_hours = 0 the open_dataset implementation opens nothing but
\* the group URL of start_date, once; its list of per-hour datasets stays
\* empty, so a call that load lets through ends with the error of the
\* concatenation, and no call returns a dataset (with an empty time axis or
\* any other).
C19_ZeroHoursFailsAtConcat ==
    (nb = "not_mf" /\ Called /\ args.num_hours = 0) =>
        /\ ~ Returned /\ result = Unbound
        /\ pc \notin {"url", "assign_grid", "crs", "latlon", "return"}
        /\ datasets = << >>
        /\ Len(opens) <= 1
        /\ \A k \in 1..Len(opens) :
              opens[k].urls = << StartGroupUrl >> /\ opens[k].hour = -1
        /\ pc = "concat" => Len(opens) = 1 /\ opens[1].ok
        /\ (pc = "raised" /\ err \notin LoadErrors) =>
              /\ err = "concat"
              /\ Len(opens) = 1 /\ opens[1].ok
              /\ trace[Len(trace)] = [step |-> "concat", hour |-> -1,
                                      ev |-> "raise"]

C19_Witness ==
    /\ nb = "not_mf" /\ Called /\ args.num_hours = 0
    /\ pc = "raised" /\ err = "concat"
    /\ Len(opens) = 1 /\ datasets = << >>

RECURSIVE UrlCount(_)
UrlCount(os) ==
    IF os = << >> THEN 0 ELSE Len(Head(os).urls) + UrlCount(Tail(os))

\* C20: the open_mfdataset implementation opens, for the k-th hour, the
\* group URL and the subgroup URL of start_date + k hours in one multi-file
\* open, the group URL first, and the subgroup URL is the group URL followed
\* by /<level>; a call whose loop has ended has made num_hours such paired
\* opens of 2 * num_hours URLs.
C20_PairedOpens ==
    (nb = "part_000" /\ Called) =>
        /\ \A k \in 1..Len(opens) :
              /\ opens[k].hour = k - 1
              /\ Len(opens[k].urls) = 2
              /\ opens[k].urls[1]
                    = GroupUrl(AddHours(args.start_date, k - 1), args.level,
                               args.param)
              /\ opens[k].urls[2]
                    = opens[k].urls[1] \o << "/", args.level >>
        /\ Len(opens) <= args.num_hours
        /\ (pc = "return" \/ Returned) =>
              /\ Len(opens) = args.num_hours
              /\ UrlCount(opens) = 2 * args.num_hours

C20_Witness ==
    /\ nb = "part_000" /\ Called /\ Returned
    /\ args.num_hours >= 2
    /\ Len(opens) = args.num_hours
    /\ UrlCount(opens) = 2 * args.num_hours

\* Every dataset the archive has handed out so far has a data variable.
AllHaveData == \A k \in 1..Len(opens) : opens[k].ok => opens[k].nvars > 0

\* The hours whose iteration went through xr.concat.
ConcatHours ==
    { trace[k].hour : k \in { j \in Pos : trace[j].step = "concat"
                                           /\ trace[j].ev = "end" } }

\* C16: in the open_mfdataset implementation, provided every per-hour
\* dataset has a data variable, after the iterations of hours 0..k
\* combined_ds holds exactly the datasets of those hours in order; the
\* iteration of hour 0 takes the assignment branch and every later
\* iteration the concatenation branch.
C16_FoldInOrder ==
    (nb = "part_000" /\ Called /\ AllHaveData) =>
        /\ i = 0 => combined_ds = None
        /\ i > 0 =>
              /\ combined_ds # None
              /\ Len(combined_ds.time) = i
              /\ \A k \in 1..i :
                    AbsHour(combined_ds.time[k])
                        = AbsHour(args.start_date) + (k - 1)
              /\ combined_ds.timeDim = (i > 1)
        /\ ConcatHours = 1..(i - 1)
        /\ \A k \in Pos :
              (trace[k].step = "concat" /\ nb = "part_000")
                  => trace[k].hour >= 1

C16_Witness ==
    /\ nb = "part_000" /\ Called /\ AllHaveData /\ Returned
    /\ args.num_hours = 3 /\ i = 3
    /\ Len(result.time) = 3
    /\ ConcatHours = {1, 2}

\* What both implementations are to produce for the arguments of the call:
\* the subgroup URLs of hours 0..num_hours-1 in that order, and one time
\* entry per hour in that order.
IsHourOpen(e) == e.hour >= 0

SubgroupSequence ==
    LET hs == SelectSeq(opens, IsHourOpen)
    IN [k \in 1..Len(hs) |-> SubgroupOf(hs[k])]

CommonSubgroups ==
    [k \in 1..args.num_hours |->
        SubgroupUrl(AddHours(args.start_date, k - 1), args.level, args.param)]

CommonTimes == [k \in 1..args.num_hours |-> AddHours(args.start_date, k - 1)]

\* C15: for num_hours >= 1 the two implementations agree: a call that
\* returns has opened the same subgroup URLs in the same order and returns
\* a dataset with the same time entries in the same order, whichever
\* implementation ran.
C15_SameUrlsAndTimes ==
    (Called /\ Returned /\ args.num_hours >= 1) =>
        /\ SubgroupSequence = CommonSubgroups
        /\ TimeAxis(result) = CommonTimes

\* The values the per-hour datasets of the call carry for an attribute.
CarriedValues(name) ==
    { archive.attrs[h][name] :
        h \in { g \in 0..(args.num_hours - 1) :
                   name \in DOMAIN archive.attrs[g] } }

\* C17: in the open_mfdataset implementation an attribute is in the
\* returned dataset only if all the per-hour datasets that carry it carry
\* the same value (stated for calls whose datasets all have a data
\* variable, so that every hour is part of the fold).
C17_ConflictsStayDropped ==
    (nb = "part_000" /\ Called /\ Returned /\ result # None /\ AllHaveData) =>
        \A name \in DOMAIN result.attrs :
            Cardinality(CarriedValues(name)) <= 1

\* thread_locking: the dataset its first cell opens remotely.
RemoteDataset == OpenZarr(archive.arrays[OpenedPath], << 1, "ds_from_s3" >>)

\* The size the recorded run printed: 348.84173583984375 MB.
RecordedSize == << 348, 882624 >>

\* C11: the reduction over time of thread_locking's third cell leaves the
\* dataset it reads as it was: ds_from_s3 is still the object the first cell
\* opened, ds_size_mb(ds_from_s3) prints the same value after the reduction
\* as before it, and the result of the reduction is another object.
C11_ReductionLeavesSource ==
    (nb = "thread_locking" /\ cell > 3) =>
        /\ globals["ds_from_s3"] = RemoteDataset
        /\ globals["_"].kind = "ndarray"
        /\ globals["_"].obj # globals["ds_from_s3"].obj
        /\ globals["_"].obj[1] >= 3
        /\ Len(out) >= 1
        /\ out[1].value = ds_size_mb(RemoteDataset)
        /\ cell > 4 => /\ Len(out) >= 2
                       /\ out[2].cell = 4
                       /\ out[2].value = out[1].value

C11_Witness ==
    /\ nb = "thread_locking" /\ cell > 4
    /\ globals["_"].obj = << 3, "_" >>
    /\ out[1].value = RecordedSize /\ out[2].value = RecordedSize

\* The path the claim names.
ClaimedPath ==
    << "hrrrzarr", "sfc", "20211124", "20211124_00z_fcst.zarr", "surface",
       "PRES", "surface" >>

\* C12: the path the copy command takes its source from is the path
\* thread_locking opens remotely,
\* hrrrzarr/sfc/20211124/20211124_00z_fcst.zarr/surface/PRES/surface, the
\* copy goes to the path the notebook opens locally, and the local dataset
\* has the size ds_size_mb printed for the remote one.
C12_LocalMirrorsRemote ==
    nb = "thread_locking" =>
        /\ ObjectPath(CopySource) = ClaimedPath
        /\ OpenedPath = ClaimedPath
        /\ CopyTarget = LocalPath
        /\ globals["ds_from_local"] # Unbound =>
              /\ globals["ds_from_local"].shape = globals["ds_from_s3"].shape
              /\ ds_size_mb(globals["ds_from_local"])
                    = ds_size_mb(globals["ds_from_s3"])
        /\ cell > 7 => /\ Len(out) = 3
                       /\ out[3].cell = 7
                       /\ out[3].value = out[1].value

C12_Witness ==
    /\ nb = "thread_locking" /\ cell > 7
    /\ out[3].value = RecordedSize /\ out[1].value = RecordedSize
    /\ globals["ds_from_local"].obj # globals["ds_from_s3"].obj

\* C21: in the open_dataset implementation, for num_hours >= 1, the x and y
\* of the returned dataset are those of the group opened for start_date (the
\* first open of the call, made with time=None), and the time axis of the
\* returned dataset holds the times of the per-hour datasets of the loop and
\* nothing else: the None of the grid load is no entry of it.
C21_GridFromStartGroup ==
    (nb = "not_mf" /\ Called /\ Returned /\ args.num_hours >= 1) =>
        /\ opens[1].hour = -1 /\ opens[1].urls = << StartGroupUrl >>
        /\ grid.grid = args.start_date
        /\ grid.time = << None >>
        /\ result.grid = grid.grid
        /\ \A k \in 1..Len(datasets) : datasets[k].grid = None
        /\ \A k \in 1..Len(result.time) : result.time[k] # None
        /\ Len(result.time) = Len(datasets)
        /\ \A k \in 1..Len(datasets) : datasets[k].time = << result.time[k] >>

C21_Witness ==
    /\ nb = "not_mf" /\ Called /\ Returned
    /\ args.num_hours >= 2
    /\ args.start_date.hour = 22
    /\ result.grid = args.start_date
    /\ grid.time = << None >>
    /\ Len(result.time) = args.num_hours

\* The trace holds, before position a, the end of the given step for hour g.
EndedBefore(a, step, g) ==
    \E b \in 1..(a - 1) : trace[b] = [step |-> step, hour |-> g, ev |-> "end"]

\* C22: in both implementations every per-hour dataset handed to
\* xr.concat along "time" has "time" as a coordinate by then: the datasets
\* of not_mf's list and both operands of part_000's concat are promoted,
\* and in the trace the promotion of every hour a concatenation takes in
\* has ended before that concatenation begins.
C22_TimePromotedBeforeConcat ==
    /\ nb = "not_mf" =>
          \A k \in 1..Len(datasets) :
              datasets[k].timeCoord /\ datasets[k].time # << None >>
    /\ (nb = "part_000" /\ pc = "combine") =>
          /\ ds.timeCoord
          /\ combined_ds # None => combined_ds.timeCoord
    /\ InLoadCombined =>
          \A a \in Pos :
              (trace[a].step = "concat" /\ Begins(a)) =>
                  IF nb = "not_mf"
                  THEN \A g \in 0..(args.num_hours - 1) :
                           EndedBefore(a, "set_time", g)
                  ELSE \A g \in 0..trace[a].hour :
                           EndedBefore(a, "set_coords", g)

C22_Witness ==
    /\ nb = "part_000" /\ pc = "combine"
    /\ i = 2 /\ Truthy(combined_ds)
    /\ ds.timeCoord /\ combined_ds.timeCoord /\ combined_ds.timeDim

\* All three repairs have been applied to the dataset.
Repaired(d) ==
    d \notin {None, Unbound} /\ d.kind = "Dataset"
        /\ d.renamed /\ d.crs /\ d.latlon

\* The dataset the reduction and the plot of the notebook work on.
UsedDataset ==
    CASE InLoadCombined -> result
      [] nb = "projection" -> globals["surface_temp"]
      [] nb = "thread_locking" -> globals["ds_from_s3"]

\* A reduction or a plot has run to its end.
ReducedOrPlotted ==
    \E k \in Pos : trace[k].step \in {"reduce", "plot"} /\ trace[k].ev = "end"

\* assign_latitude_longitude is asked only of a dataset that is renamed and
\* carries a reference system: in the calls of load_combined_dataset when
\* the statement is up, and in every trace before the step begins (for
\* not_mf, whose repair is of the concatenated dataset, the rename of every
\* hour).
LatLonAfterRenameAndCrs ==
    /\ (InLoadCombined /\ pc \in {"latlon", "D_latlon"}) =>
          ds.renamed /\ ds.crs
    /\ \A a \in Pos :
          (trace[a].step = "assign_latlon" /\ Begins(a)) =>
              /\ EndedBefore(a, "assign_crs", trace[a].hour)
              /\ IF nb = "not_mf"
                 THEN \A g \in 0..(args.num_hours - 1) :
                          EndedBefore(a, "rename", g)
                 ELSE EndedBefore(a, "rename", trace[a].hour)
    /\ \A d \in {ds, combined_ds, result, globals["surface_temp"]} :
          (d \notin {None, Unbound} /\ d.latlon) => (d.renamed /\ d.crs)

\* C23 as stated: in every notebook assign_latitude_longitude is asked only
\* of a renamed dataset that carries a reference system, and a reduction or
\* plot that has run worked on a dataset with all three repairs.
C23_RepairOrdered ==
    /\ LatLonAfterRenameAndCrs
    /\ ReducedOrPlotted => Repaired(UsedDataset)

\* C23 amended: the same, for the notebooks that repair metadata (the two
\* implementations of load_combined_dataset and the projection notebook);
\* thread_locking reduces the dataset as it was opened.
C23_RepairOrderedWhereRepaired ==
    /\ LatLonAfterRenameAndCrs
    /\ (nb # "thread_locking" /\ ReducedOrPlotted) => Repaired(UsedDataset)

C23_Witness ==
    /\ nb = "projection"
    /\ trace # << >>
    /\ trace[Len(trace)] = [step |-> "plot", hour |-> -1, ev |-> "end"]
    /\ Repaired(globals["surface_temp"])

====
